---- MODULE Spec2Model ----
(***************************************************************************)
(* starspot.RotationModel: the Lomb-Scargle, autocorrelation and phase      *)
(* dispersion period estimators of src/build/lib/starspot/starspot.py.      *)
(*                                                                          *)
(* Floats are pairs <<n, d>>: d > 0 is the rational n/d in lowest terms,    *)
(* <<0, 0>> is NaN and <<1, 0>> is +inf.  An attribute of the object is     *)
(* <<>> while it was never assigned and <<v>> once it holds v.  Array       *)
(* indices are the code's 0-based indices; At(s, i) reads s[i].             *)
(***************************************************************************)
EXTENDS Integers, Sequences, FiniteSets, TLC

VARIABLES self, ret, ls_oracle, acf_oracle, fit_oracle

vars == <<self, ret, ls_oracle, acf_oracle, fit_oracle>>

(* ------------------------------ bounds --------------------------------- *)

\* length of the default frequency grid (100000 in the code, line 94)
NFreq == 4

\* largest power / correlation value an external estimator hands back
MaxPow == 2

\* number of lags of the autocorrelation curve
NLags == 5

\* number of points of the light curve
NPoints == 3

\* largest number of trial periods in a period grid
MaxGrid == 2

(* ------------------------------ floats --------------------------------- *)

None == <<>>

Some(v) == <<v>>

NaN == <<0, 0>>

Inf == <<1, 0>>

Abs(n) == IF n < 0 THEN -n ELSE n

RECURSIVE GCD(_, _)
GCD(m, n) == IF n = 0 THEN m ELSE GCD(n, m % n)

Norm(n, d) ==
  IF d = 0 THEN (IF n = 0 THEN NaN ELSE Inf)
  ELSE LET g == GCD(Abs(n), Abs(d))
           sg == IF d < 0 THEN -1 ELSE 1
       IN <<sg * (n \div g), sg * (d \div g)>>

R(n) == <<n, 1>>

isfinite(a) == a[2] # 0

RAdd(a, b) == IF a = NaN \/ b = NaN THEN NaN
              ELSE IF a[2] = 0 \/ b[2] = 0 THEN Inf
              ELSE LET g == GCD(a[2], b[2])
                   IN Norm(a[1] * (b[2] \div g) + b[1] * (a[2] \div g),
                           a[2] * (b[2] \div g))

RSub(a, b) == IF a = NaN \/ b = NaN \/ (a[2] = 0 /\ b[2] = 0) THEN NaN
              ELSE IF a[2] = 0 THEN Inf
              ELSE IF b[2] = 0 THEN NaN
              ELSE LET g == GCD(a[2], b[2])
                   IN Norm(a[1] * (b[2] \div g) - b[1] * (a[2] \div g),
                           a[2] * (b[2] \div g))

RMul(a, b) == IF ~isfinite(a) \/ ~isfinite(b) THEN NaN
              ELSE Norm(a[1] * b[1], a[2] * b[2])

\* numpy division: x/0 is inf (x > 0), 0/0 is nan
RDiv(a, b) == IF ~isfinite(a) \/ ~isfinite(b) THEN NaN
              ELSE Norm(a[1] * b[2], a[2] * b[1])

\* a < b on floats: False whenever an operand is NaN
Lt(a, b) == /\ a # NaN
            /\ b # NaN
            /\ IF a[2] = 0 THEN FALSE
               ELSE IF b[2] = 0 THEN TRUE
               ELSE LET g == GCD(a[2], b[2])
                    IN a[1] * (b[2] \div g) < b[1] * (a[2] \div g)

Le(a, b) == a # NaN /\ b # NaN /\ ~Lt(b, a)

\* a == b on floats: False whenever an operand is NaN
Eq(a, b) == a # NaN /\ b # NaN /\ a = b

RAbs(a) == <<Abs(a[1]), a[2]>>

At(s, i) == s[i + 1]

\* an array with every element computed once
array(f) == f \o <<>>

\* the code's range(lo, hi) as a sequence
Range(lo, hi) == [k \in 1..(IF hi > lo THEN hi - lo ELSE 0) |-> lo + k - 1]

ToSet(s) == {s[k] : k \in 1..Len(s)}

AllFinite(s) == \A k \in 1..Len(s) : isfinite(s[k])

\* boolean-mask indexing a[m]
RECURSIVE Mask(_, _)
Mask(a, m) ==
  IF Len(a) = 0 THEN <<>>
  ELSE IF Head(m) THEN <<Head(a)>> \o Mask(Tail(a), Tail(m))
  ELSE Mask(Tail(a), Tail(m))

\* max(...) of a non-empty sequence of floats, as Python folds it
RECURSIVE PyMax(_)
PyMax(s) ==
  IF Len(s) = 1 THEN s[1]
  ELSE LET m == PyMax(SubSeq(s, 1, Len(s) - 1))
       IN IF Lt(m, s[Len(s)]) THEN s[Len(s)] ELSE m

\* np.linspace(lo, hi, n)
linspace(lo, hi, n) ==
  array([k \in 1..n |->
           IF n = 1 THEN lo
           ELSE RAdd(lo, RDiv(RMul(R(k - 1), RSub(hi, lo)), R(n - 1)))])

(* --------------------------- the object -------------------------------- *)

Fields == {"time", "flux", "flux_err", "Rvar", "freq", "power", "ls_period",
           "acf_x", "acf_y", "lags", "acf", "acf_period", "pdm_nbins",
           "period_grid", "phis", "pdm_period", "sigma", "mu", "a", "b",
           "period_err", "phase"}

\* np.percentile(a, q), linear interpolation between the closest ranks
percentile(a, q) ==
  IF ~AllFinite(a) THEN NaN
  ELSE LET srt == SortSeq(a, Lt)
           n == Len(a)
           lo == (q * (n - 1)) \div 100
           fr == Norm(q * (n - 1) - 100 * lo, 100)
       IN IF lo + 1 >= n THEN At(srt, lo)
          ELSE RAdd(At(srt, lo), RMul(fr, RSub(At(srt, lo + 1), At(srt, lo))))

\* RotationModel.__init__
RotationModel(time, flux, flux_err) ==
  [f \in Fields |->
     CASE f = "time" -> Some(time)
       [] f = "flux" -> Some(flux)
       [] f = "flux_err" -> Some(flux_err)
       [] f = "Rvar" -> Some(RSub(percentile(flux, 95), percentile(flux, 5)))
       [] OTHER -> None]

\* what a call left behind: its outcome and the values of its locals
Outcome(op, args, exc, val, loc) ==
  [op |-> op, args |-> args, exc |-> exc, val |-> val, loc |-> loc]

(* ------------------------ peak extraction ------------------------------ *)

\* [i for i in range(1, len(ps)-1) if power[i-1] < power[i] and
\*                                    power[i+1] < power[i]]
\* a peak test that also accepts a sample equal to a neighbour
IsPeakAtWeak(y, i) ==
  ~Lt(At(y, i), At(y, i - 1)) /\ ~Lt(At(y, i), At(y, i + 1))

IsPeakAt(y, i) == Lt(At(y, i - 1), At(y, i)) /\ Lt(At(y, i + 1), At(y, i))

RECURSIVE Comprehension(_, _)
Comprehension(y, rng) ==
  IF Len(rng) = 0 THEN <<>>
  ELSE (IF IsPeakAt(y, Head(rng)) THEN <<Head(rng)>> ELSE <<>>)
       \o Comprehension(y, Tail(rng))

PeakIndices(y) == Comprehension(y, Range(1, Len(y) - 1))

(* --------------------------- ls_rotation ------------------------------- *)

\* apt.LombScargle(time, flux).power(freq): the external periodogram, one
\* power value per frequency sample
LombScargle(oracle, freq) == array([k \in 1..Len(freq) |-> R(oracle[k])])

\* ps[self.power == max(self.power[peaks])][0]
HighestPeakPeriod(ps, power, peaks) ==
  LET top == PyMax([k \in 1..Len(peaks) |-> At(power, peaks[k])])
      m == [k \in 1..Len(power) |-> Eq(power[k], top)]
  IN At(Mask(ps, m), 0)

ls_rotation(obj, a, oracle) ==
  LET s1 == IF a.input_freq # None /\ a.input_power # None
            THEN [obj EXCEPT !.freq = a.input_freq, !.power = a.input_power]
            ELSE [obj EXCEPT !.freq =
                    Some(linspace(RDiv(R(1), a.max_period),
                                  RDiv(R(1), a.min_period), NFreq))]
      freq == s1.freq[1]
  IN IF a.input_ls_period # None
     THEN [self |-> [s1 EXCEPT !.ls_period = a.input_ls_period],
           ret |-> Outcome("ls_rotation", a, "none", a.input_ls_period,
                           [calls |-> <<>>])]
     ELSE IF ~AllFinite(obj.flux[1])
     THEN [self |-> s1,
           ret |-> Outcome("ls_rotation", a, "AssertionError", None,
                           [calls |-> <<>>])]
     ELSE LET power == LombScargle(oracle, freq)
              ps == [k \in 1..Len(freq) |-> RDiv(R(1), freq[k])]
              peaks == PeakIndices(power)
              ls_period == IF Len(peaks) = 0 THEN R(0)
                           ELSE HighestPeakPeriod(ps, power, peaks)
          IN [self |-> [s1 EXCEPT !.power = Some(power),
                                  !.ls_period = Some(ls_period)],
              ret |-> Outcome("ls_rotation", a, "none", Some(ls_period),
                              [calls |-> <<"LombScargle">>, ps |-> ps,
                               peaks |-> peaks])]

(* --------------------------- acf_rotation ------------------------------ *)

\* interval = "TESS" (line 155) and interval = "Kepler" (line 157), in days
TESS == Norm(138889, 100000000)

Kepler == Norm(2043365, 100000000)

\* rotation_tools.simple_acf: the external autocorrelation estimator.  It
\* hands back the lags (multiples of the interval), one correlation value
\* per lag, and the evenly sampled series it correlated.  A non-finite flux
\* propagates into every correlation value.
simple_acf(time, flux, interval, oracle) ==
  [lags |-> array([k \in 1..NLags |-> RMul(R(k - 1), interval)]),
   acf |-> array([k \in 1..NLags |->
                    IF AllFinite(flux) THEN R(oracle[k]) ELSE NaN]),
   x |-> time,
   y |-> flux]

\* the ranking "height": descending y, ties by ascending x
HigherFirst(p, q) == Lt(q[2], p[2]) \/ (Eq(p[2], q[2]) /\ Lt(p[1], q[1]))

\* rotation_tools.get_peak_statistics(x, y, sort_by="height"): the strict
\* local maxima of the curve as (x, y) pairs, ranked by height
get_peak_statistics(x, y) ==
  LET peaks == PeakIndices(y)
      pairs == [k \in 1..Len(peaks) |-> <<At(x, peaks[k]), At(y, peaks[k])>>]
      ranked == SortSeq(pairs, HigherFirst)
  IN [x_peaks |-> [k \in 1..Len(ranked) |-> ranked[k][1]],
      y_peaks |-> [k \in 1..Len(ranked) |-> ranked[k][2]]]

\* m = lags > cutoff
\* a mask that keeps every lag
CutoffMaskNone(lags, cutoff) == [k \in 1..Len(lags) |-> TRUE]

CutoffMask(lags, cutoff) == [k \in 1..Len(lags) |-> Lt(cutoff, lags[k])]

acf_rotation(obj, a, oracle) ==
  LET interval == IF a.interval = <<"TESS">> THEN TESS
                  ELSE IF a.interval = <<"Kepler">> THEN Kepler
                  ELSE a.interval
      r == simple_acf(obj.time[1], obj.flux[1], interval, oracle)
      s1 == [obj EXCEPT !.acf_x = Some(r.x), !.acf_y = Some(r.y)]
      m == CutoffMask(r.lags, a.cutoff)
      pk == get_peak_statistics(Mask(r.lags, m), Mask(r.acf, m))
      s2 == [s1 EXCEPT !.lags = Some(Mask(r.lags, m)),
                       !.acf = Some(Mask(r.acf, m))]
      loc == [calls |-> <<"simple_acf", "get_peak_statistics">>,
              lags |-> r.lags, acf |-> r.acf, xpeaks |-> pk.x_peaks,
              ypeaks |-> pk.y_peaks]
  IN IF Len(pk.x_peaks) = 0
     THEN [self |-> s2,
           ret |-> Outcome("acf_rotation", a, "IndexError", None, loc)]
     ELSE [self |-> [s2 EXCEPT !.acf_period = Some(At(pk.x_peaks, 0))],
           ret |-> Outcome("acf_rotation", a, "none",
                           Some(At(pk.x_peaks, 0)), loc)]

(* --------------------- phase dispersion minimization ------------------- *)

Floor(a) == a[1] \div a[2]

RECURSIVE RSum(_)
RSum(s) == IF Len(s) = 0 THEN R(0) ELSE RAdd(Head(s), RSum(Tail(s)))

RECURSIVE ISum(_)
ISum(s) == IF Len(s) = 0 THEN 0 ELSE Head(s) + ISum(Tail(s))

Mean(xs) == RDiv(RSum(xs), R(Len(xs)))

\* phase_dispersion_minimization.calc_phase:
\* phases[i] = ((times[i] - times[0]) / period) mod 1, in [0, 1)
calc_phase(p, t) ==
  array([k \in 1..Len(t) |->
           LET q == RDiv(R(t[k] - t[1]), p)
           IN RSub(q, R(Floor(q)))])

\* phase_dispersion_minimization.sj2: the population variance of the N
\* values about meanx; 0 for a bin that holds fewer than 2 points
sj2(xs, meanx, N) ==
  IF N < 2 THEN R(0)
  ELSE RDiv(RSum([k \in 1..Len(xs) |->
                    RMul(RSub(xs[k], meanx), RSub(xs[k], meanx))]), R(N))

\* one phase bin: its flux values, their count, mean and variance
BinStats(xs) ==
  [x |-> xs, N |-> Len(xs),
   mean |-> IF Len(xs) = 0 THEN R(0) ELSE Mean(xs)]

BinVariance(bin) == sj2(bin.x, bin.mean, bin.N)

Unzip(bins) ==
  [x_means |-> array([j \in 1..Len(bins) |-> bins[j].mean]),
   Ns |-> array([j \in 1..Len(bins) |-> bins[j].N]),
   sj2s |-> array([j \in 1..Len(bins) |-> BinVariance(bins[j])]),
   x_binned |-> array([j \in 1..Len(bins) |-> bins[j].x])]

\* phase_dispersion_minimization.phase_bins: nbins equal-width half-open
\* bins of [0, 1); per bin the flux values, their count, mean and variance
phase_bins(nbins, phase, x) ==
  Unzip(array([j \in 1..nbins |->
                 BinStats(Mask(x, [k \in 1..Len(phase) |->
                                     Floor(RMul(phase[k], R(nbins))) = j - 1]))]))

\* phase_dispersion_minimization.s2: the pooled within-bin variance
\* sum_j (n_j - 1) sj2_j / (sum_j n_j - M); undefined when the denominator
\* is not positive
s2(nj, sj2s, M) ==
  LET num == RSum([j \in 1..Len(nj) |->
                     IF nj[j] < 2 THEN R(0)
                     ELSE RMul(R(nj[j] - 1), sj2s[j])])
      den == ISum(nj) - M
  IN IF den <= 0 THEN NaN ELSE RDiv(num, R(den))

\* the number of occupied bins
Occupied(nj) == Cardinality({j \in 1..Len(nj) : nj[j] >= 1})

\* s2(P) / sigma2 with the occupied bins as M
RatioOccupied(b, total_variance) ==
  RDiv(s2(b.Ns, b.sj2s, Occupied(b.Ns)), total_variance)

\* s2(P) / sigma2 from the binned fold and the total variance, as
\* test_phase_bins pins it: pdm.phi(nbins, P, t, x) ==
\* pdm.s2(Ns, sj2s, nbins) / pdm.sj2(x, np.mean(x), len(x))
Ratio(b, total_variance) ==
  RDiv(s2(b.Ns, b.sj2s, Len(b.Ns)), total_variance)

\* phase_dispersion_minimization.phi: the statistic s2(P) / sigma2 of one
\* trial period, or the invalid-input error it fails with
phi(nbins, p, t, x) ==
  IF nbins < 2 \/ ~AllFinite(x) THEN [exc |-> "InvalidInput", val |-> NaN]
  ELSE IF ~Lt(R(0), p) THEN [exc |-> "InvalidPeriod", val |-> NaN]
  ELSE [exc |-> "none",
        val |-> Ratio(phase_bins(nbins, calc_phase(p, t), x),
                      sj2(x, Mean(x), Len(x)))]

\* phase_dispersion_minimization.estimate_uncertainty: the nonlinear
\* least-squares fit of b + a exp(-(P - mu)^2 / (2 sigma^2)) to the
\* profile.  The solver is external: the oracle fixes whether it converges
\* and the fitted parameters, mu as a shift from the grid minimum.
estimate_uncertainty(period_grid, phis, best, oracle) ==
  CASE oracle.outcome = "converged" ->
         [exc |-> "none", err |-> RAbs(oracle.sigma),
          mu |-> RAdd(best, oracle.shift), a |-> oracle.a, b |-> oracle.b]
    [] oracle.outcome = "sentinel" ->
         [exc |-> "none", err |-> Inf, mu |-> best, a |-> NaN, b |-> NaN]
    [] OTHER ->
         [exc |-> "FitDidNotConverge", err |-> NaN, mu |-> NaN, a |-> NaN,
          b |-> NaN]

(* --------------------------- pdm_rotation ------------------------------ *)

\* the loop's outcome from the results of the calls of phi, in call order:
\* the first error ends it
LoopOutcome(res, period_grid, bad) ==
  IF bad = {}
  THEN [exc |-> "none",
        phis |-> array([k \in 1..Len(res) |-> res[k].val]),
        evaluated |-> period_grid]
  ELSE [exc |-> res[CHOOSE k \in bad : \A j \in bad : k <= j].exc,
        phis |-> <<>>,
        evaluated |-> SubSeq(period_grid, 1,
                             (CHOOSE k \in bad : \A j \in bad : k <= j) - 1)]

Failed(res) == {k \in 1..Len(res) : res[k].exc # "none"}

Results(res, period_grid) == LoopOutcome(res, period_grid, Failed(res))

\* a loop that stores 0 where the statistic is undefined
PhiLoopZero(nbins, period_grid, t, x) ==
  Results(array([k \in 1..Len(period_grid) |->
                   [exc |-> phi(nbins, period_grid[k], t, x).exc,
                    val |-> IF phi(nbins, period_grid[k], t, x).val = NaN
                            THEN R(0)
                            ELSE phi(nbins, period_grid[k], t, x).val]]),
          period_grid)

\* phis = np.zeros(nperiods); for i in trange(len(period_grid)):
\*     phis[i] = phi(pdm_nbins, period_grid[i], self.time, self.flux)
\* evaluated lists the trial periods whose statistic was computed
PhiLoop(nbins, period_grid, t, x) ==
  Results(array([k \in 1..Len(period_grid) |->
                   phi(nbins, period_grid[k], t, x)]), period_grid)

First(S) == CHOOSE k \in S : \A j \in S : k <= j

\* np.argmin: the first NaN if there is one, else the first smallest value
argmin(a) ==
  IF \E k \in 1..Len(a) : a[k] = NaN
  THEN First({k \in 1..Len(a) : a[k] = NaN}) - 1
  ELSE First({k \in 1..Len(a) : \A j \in 1..Len(a) : ~Lt(a[j], a[k])}) - 1

\* a return value that reports the centre of the fit
PdmReturnMu(pdm_period, mu, err) == <<mu, err>>

\* return self.pdm_period, err
PdmReturn(pdm_period, mu, err) == <<pdm_period, err>>

\* lines 222-235: the fit, the attributes it fills and the return value
pdm_fit(obj, a, loc, pdm_period, fit) ==
  IF fit.exc # "none"
  THEN [self |-> obj, ret |-> Outcome("pdm_rotation", a, fit.exc, None, loc)]
  ELSE [self |-> [obj EXCEPT
                    !.sigma = Some(fit.err),
                    !.mu = Some(fit.mu),
                    !.a = Some(fit.a),
                    !.b = Some(fit.b),
                    !.period_err = Some(fit.err),
                    !.phase = Some(calc_phase(pdm_period, obj.time[1]))],
        ret |-> Outcome("pdm_rotation", a, "none",
                        Some(PdmReturn(pdm_period, fit.mu, fit.err)), loc)]

\* lines 216-224: the period with the lowest Phi
pdm_minimum(obj, a, oracle, phis, ind) ==
  pdm_fit([obj EXCEPT !.pdm_period = Some(At(a.period_grid, ind))], a,
          [calls |-> a.period_grid, ind |-> ind, fit |-> oracle.outcome],
          At(a.period_grid, ind),
          estimate_uncertainty(a.period_grid, phis, At(a.period_grid, ind),
                               oracle))

\* lines 208-217: the grid search
pdm_search(obj, a, oracle, loop) ==
  IF loop.exc # "none"
  THEN [self |-> obj,
        ret |-> Outcome("pdm_rotation", a, loop.exc, None,
                        [calls |-> loop.evaluated])]
  ELSE IF Len(loop.phis) = 0
  THEN [self |-> [obj EXCEPT !.phis = Some(loop.phis)],
        ret |-> Outcome("pdm_rotation", a, "ValueError", None,
                        [calls |-> loop.evaluated])]
  ELSE pdm_minimum([obj EXCEPT !.phis = Some(loop.phis)], a, oracle,
                   loop.phis, argmin(loop.phis))

pdm_rotation(obj, a, oracle) ==
  pdm_search([obj EXCEPT !.pdm_nbins = Some(a.pdm_nbins),
                         !.period_grid = Some(a.period_grid)],
             a, oracle,
             PhiLoop(a.pdm_nbins, a.period_grid, obj.time[1], obj.flux[1]))

(* --------------------------- test_phase_bins --------------------------- *)

\* the pieces test_phase_bins computes one by one, and the value of phi
PiecesOutcome(a, b, total_variance, r) ==
  Outcome("phi", a, r.exc, Some(r.val),
          [calls |-> <<a.p>>, Ns |-> b.Ns, sj2s |-> b.sj2s,
           s2 |-> s2(b.Ns, b.sj2s, a.nbins),
           total_variance |-> total_variance])

\* phase = pdm.calc_phase(P, t); ... = pdm.phase_bins(nbins, phase, x);
\* s2P = pdm.s2(Ns, sj2s, nbins);
\* total_variance = pdm.sj2(x, np.mean(x), len(x)); pdm.phi(nbins, P, t, x)
test_phase_bins(obj, a) ==
  [self |-> obj,
   ret |-> PiecesOutcome(a,
             phase_bins(a.nbins, calc_phase(a.p, obj.time[1]), obj.flux[1]),
             sj2(obj.flux[1], Mean(obj.flux[1]), Len(obj.flux[1])),
             phi(a.nbins, a.p, obj.time[1], obj.flux[1]))]

(* ------------------------- inputs and oracles -------------------------- *)

FluxValues == {R(0), R(1), R(2)}

\* strictly increasing observation times: evenly sampled, and with a gap
\* before the last observation
Times == {[k \in 1..NPoints |-> k - 1],
          [k \in 1..NPoints |-> IF k = NPoints THEN k ELSE k - 1]}

FiniteFluxes == [1..NPoints -> FluxValues]

\* flux arrays with one missing (NaN) measurement
NaNFluxes == {[k \in 1..NPoints |-> IF k = n THEN NaN ELSE R(k)] :
                n \in 1..NPoints}

Errors == [k \in 1..NPoints |-> Norm(1, 100)]

LightCurves == [time : Times, flux : FiniteFluxes \cup NaNFluxes]

\* a few light curves for the runs that interleave the three estimators
SampleLightCurves ==
  {[time |-> [k \in 1..NPoints |-> k - 1], flux |-> f] :
     f \in {[k \in 1..NPoints |-> R(k % 3)],
            [k \in 1..NPoints |-> IF k = 2 THEN NaN ELSE R(k)]}}

LsOracles == [1..NFreq -> 0..MaxPow]

AcfOracles == [1..NLags -> 0..MaxPow]

SampleLsOracles ==
  {[k \in 1..NFreq |-> IF k = 2 THEN MaxPow ELSE 0],
   [k \in 1..NFreq |-> IF k \in {1, 3} THEN MaxPow ELSE 0]}

SampleAcfOracles ==
  {[k \in 1..NLags |-> IF k \in {1, 3} THEN MaxPow ELSE 0],
   [k \in 1..NLags |-> IF k = 1 THEN MaxPow ELSE 0]}

FitOracles ==
  [outcome : {"converged"}, shift : {R(0), Norm(1, 2)},
   sigma : {Norm(-1, 2), Norm(1, 4)}, a : {R(-1)}, b : {R(1)}]
  \cup [outcome : {"FitDidNotConverge", "sentinel"}, shift : {R(0)},
        sigma : {NaN}, a : {NaN}, b : {NaN}]

SampleFitOracles ==
  {o \in FitOracles : o.outcome = "converged" =>
                        o.shift = Norm(1, 2) /\ o.sigma = Norm(-1, 2)}

\* the arguments of the calls
LsArgs ==
  [min_period : {Norm(1, 2)}, max_period : {R(50), R(2)},
   input_freq : {None} \cup {Some([k \in 1..n |-> R(k)]) : n \in 1..NFreq},
   input_power : {None, Some([k \in 1..NFreq |-> R(IF k = 2 THEN 1 ELSE 0)])},
   input_ls_period : {None, Some(R(3))}]

SampleLsArgs ==
  {a \in LsArgs : /\ a.max_period = R(50)
                  /\ a.input_freq \in {None, Some([k \in 1..NFreq |-> R(k)])}
                  /\ a.input_power # None <=> a.input_freq # None
                  /\ a.input_ls_period # None => a.input_freq = None}

AcfArgs ==
  [interval : {<<"TESS">>, <<"Kepler">>, R(1), R(2)},
   cutoff : {R(0), Norm(1, 1000), Norm(1, 20), R(1), R(2), R(4)}]

SampleAcfArgs ==
  {a \in AcfArgs : \/ a.interval = <<"TESS">> /\ a.cutoff = R(0)
                   \/ a.interval = R(1) /\ a.cutoff \in {R(0), R(1)}}

TrialPeriods == {R(0), R(1), R(3), Norm(3, 2)}

Grids == UNION {[1..n -> TrialPeriods] : n \in 0..MaxGrid}

PdmArgs == [period_grid : Grids, pdm_nbins : 1..NPoints]

SamplePdmArgs ==
  {a \in PdmArgs : \/ /\ a.pdm_nbins = NPoints
                      /\ a.period_grid \in {<<>>, <<R(3), R(1)>>, <<R(1), R(0)>>}
                   \/ a.pdm_nbins = 1 /\ a.period_grid = <<R(3)>>}

(* ------------------------------ actions -------------------------------- *)

InitWith(curves, ls, acf, fit) ==
  /\ \E c \in curves : self = RotationModel(c.time, c.flux, Errors)
  /\ ret = Outcome("__init__", None, "none", None, [calls |-> <<>>])
  /\ ls_oracle \in ls
  /\ acf_oracle \in acf
  /\ fit_oracle \in fit

\* a call that also reverses the stored flux in place
CallReversing(r) ==
  /\ self' = [r.self EXCEPT !.flux =
                Some([k \in 1..Len(r.self.flux[1]) |->
                        r.self.flux[1][Len(r.self.flux[1]) + 1 - k]])]
  /\ ret' = r.ret
  /\ UNCHANGED <<ls_oracle, acf_oracle, fit_oracle>>

\* a call that answers with the value the previous call returned
CallMemoised(r) ==
  /\ self' = r.self
  /\ ret' = IF ret.val # None /\ r.ret.val # None
            THEN [r.ret EXCEPT !.val = ret.val] ELSE r.ret
  /\ UNCHANGED <<ls_oracle, acf_oracle, fit_oracle>>

Call(r) ==
  /\ self' = r.self
  /\ ret' = r.ret
  /\ UNCHANGED <<ls_oracle, acf_oracle, fit_oracle>>

LsRotation(args) == \E a \in args : Call(ls_rotation(self, a, ls_oracle))

AcfRotation(args) == \E a \in args : Call(acf_rotation(self, a, acf_oracle))

PdmRotation(args) == \E a \in args : Call(pdm_rotation(self, a, fit_oracle))

\* the three estimators in any order on one object
Init == InitWith(SampleLightCurves, SampleLsOracles, SampleAcfOracles,
                 SampleFitOracles)

Next ==
  \/ LsRotation(SampleLsArgs)
  \/ AcfRotation(SampleAcfArgs)
  \/ PdmRotation(SamplePdmArgs)

Spec == Init /\ [][Next]_vars

\* the object as the constructor left it
Fresh == ret.op = "__init__"

\* the first ls_rotation call on a fresh object, over every periodogram
InitLS == InitWith(SampleLightCurves, LsOracles, {CHOOSE o \in AcfOracles : TRUE},
                   {CHOOSE o \in FitOracles : TRUE})

NextLS == Fresh /\ LsRotation(LsArgs)

SpecLS == InitLS /\ [][NextLS]_vars

\* the first acf_rotation call on a fresh object, over every correlation curve
InitACF == InitWith(SampleLightCurves, {CHOOSE o \in LsOracles : TRUE},
                    AcfOracles, {CHOOSE o \in FitOracles : TRUE})

NextACF == Fresh /\ AcfRotation(AcfArgs)

SpecACF == InitACF /\ [][NextACF]_vars

\* the first pdm_rotation call on a fresh object, over every light curve,
\* grid and outcome of the fit
InitPDM == InitWith(LightCurves, {CHOOSE o \in LsOracles : TRUE},
                    {CHOOSE o \in AcfOracles : TRUE}, SampleFitOracles)

NextPDM == Fresh /\ PdmRotation(PdmArgs)

SpecPDM == InitPDM /\ [][NextPDM]_vars

\* the statistic of one trial period on a fresh object, over every
\* finite light curve, bin count and positive period
FiniteLightCurves == [time : Times, flux : FiniteFluxes]

PhiArgs == [nbins : 2..NPoints, p : {q \in TrialPeriods : Lt(R(0), q)}]

InitPhi == InitWith(FiniteLightCurves, {CHOOSE o \in LsOracles : TRUE},
                    {CHOOSE o \in AcfOracles : TRUE},
                    {CHOOSE o \in FitOracles : TRUE})

TestPhaseBins(args) == \E a \in args : Call(test_phase_bins(self, a))

NextPhi == Fresh /\ TestPhaseBins(PhiArgs)

SpecPhi == InitPhi /\ [][NextPhi]_vars

(* ------------------------------ claims --------------------------------- *)

Called(op) == ret.op = op

Has(name) == name \in DOMAIN ret.loc

\* the strict local maxima of a curve, as the set of their 0-based indices
StrictMaxima(y) ==
  {i \in 1..(Len(y) - 2) : Lt(y[i], y[i + 1]) /\ Lt(y[i + 2], y[i + 1])}

StrictlyIncreasing(y, lo, hi) == \A i \in lo..(hi - 1) : Lt(At(y, i), At(y, i + 1))

StrictlyDecreasing(y, lo, hi) == \A i \in lo..(hi - 1) : Lt(At(y, i + 1), At(y, i))

\* C1: the peaks ls_rotation extracts from a curve of length n >= 3 are
\* exactly the indices 1 <= i <= n-2 with y[i-1] < y[i] and y[i+1] < y[i];
\* a strictly monotonic curve has none and a strictly increasing-then-
\* decreasing curve has exactly one, at its maximum.
C1_PeakSet ==
  (Called("ls_rotation") /\ Has("peaks") /\ Len(self.power[1]) >= 3) =>
    LET y == self.power[1]
        n == Len(y)
        peaks == ret.loc.peaks
    IN /\ ToSet(peaks) = StrictMaxima(y)
       /\ Len(peaks) = Cardinality(StrictMaxima(y))
       /\ 0 \notin ToSet(peaks) /\ (n - 1) \notin ToSet(peaks)
       /\ \A i \in ToSet(peaks) :
            At(y, i) # At(y, i - 1) /\ At(y, i) # At(y, i + 1)
       /\ (StrictlyIncreasing(y, 0, n - 1) \/ StrictlyDecreasing(y, 0, n - 1))
            => peaks = <<>>
       /\ \A m \in 1..(n - 2) :
            (StrictlyIncreasing(y, 0, m) /\ StrictlyDecreasing(y, m, n - 1))
              => peaks = <<m>>

\* a curve with a plateau next to its single peak
C1_Witness ==
  /\ Called("ls_rotation") /\ Has("peaks")
  /\ Len(self.power[1]) = NFreq
  /\ ret.loc.peaks = <<1>>
  /\ At(self.power[1], 2) = At(self.power[1], 3)

\* C2: on a curve without a strict local maximum ls_rotation and
\* acf_rotation do not raise; each ends with a "no peak found" outcome
\* that differs from every period it could have found.
C2_NoPeakOutcome ==
  /\ (Called("ls_rotation") /\ Has("peaks") /\ ret.loc.peaks = <<>>) =>
       /\ ret.exc = "none"
       /\ \A k \in 1..Len(ret.loc.ps) : ret.val # Some(ret.loc.ps[k])
  /\ (Called("acf_rotation") /\ AllFinite(self.flux[1])
        /\ ret.loc.xpeaks = <<>>) =>
       /\ ret.exc = "none"
       /\ \A k \in 1..Len(ret.loc.lags) : ret.val # Some(ret.loc.lags[k])

\* the strict local maxima of the supplied curve with a lag above the cutoff
PeaksAbove(lags, acf, cutoff) ==
  {i \in StrictMaxima(acf) : Lt(cutoff, At(lags, i))}

\* those that are also strict local maxima of the curve cut at the cutoff:
\* the sample before them lies above the cutoff too
PeaksOfCut(lags, acf, cutoff) ==
  {i \in StrictMaxima(acf) : Lt(cutoff, At(lags, i - 1))}

Highest(lags, acf, lag, among) ==
  \E i \in among : /\ At(lags, i) = lag
                   /\ \A j \in among : ~Lt(At(acf, i), At(acf, j))

Ranked(x, y) ==
  \A k, l \in 1..Len(x) :
    k < l => (Lt(y[l], y[k]) \/ (y[k] = y[l] /\ Lt(x[k], x[l])))

\* C4: ranked by height, the peaks are in descending y with ties in
\* ascending x, and what an estimator reports is the first entry: the
\* highest peak, the one of smallest x among equally high ones.
C4_FirstRanked ==
  /\ (Called("acf_rotation") /\ ret.exc = "none") =>
       /\ Ranked(ret.loc.xpeaks, ret.loc.ypeaks)
       /\ ret.val = Some(ret.loc.xpeaks[1])
  /\ (Called("ls_rotation") /\ Has("peaks") /\ ret.loc.peaks # <<>>) =>
       ret.val = Some(RDiv(R(1),
                  get_peak_statistics(self.freq[1], self.power[1]).x_peaks[1]))

PositiveGrid(grid) == \A k \in 1..Len(grid) : Lt(R(0), grid[k])

\* the pooled-variance denominator of one trial period: the number of
\* points minus the number of occupied bins
Denominator(nbins, p, t, x) ==
  Len(x) - Cardinality({Floor(RMul(calc_phase(p, t)[k], R(nbins))) :
                          k \in 1..Len(t)})

\* C5: on a non-empty grid of positive periods pdm_rotation evaluates Phi
\* once at every grid point, in grid order, stores a profile of the grid's
\* length, and picks an index ind with phis[ind] <= phis[k] for every k;
\* pdm_period is period_grid[ind].
C5_GridArgmin ==
  (/\ Called("pdm_rotation")
   /\ ret.args.period_grid # <<>>
   /\ PositiveGrid(ret.args.period_grid)
   /\ ret.args.pdm_nbins >= 2
   /\ AllFinite(self.flux[1])) =>
    /\ ret.loc.calls = ret.args.period_grid
    /\ self.phis # None
    /\ Len(self.phis[1]) = Len(ret.args.period_grid)
    /\ Has("ind")
    /\ \A k \in 1..Len(self.phis[1]) :
         Le(At(self.phis[1], ret.loc.ind), self.phis[1][k])
    /\ self.pdm_period = Some(At(ret.args.period_grid, ret.loc.ind))

FitOf(outcome) == Called("pdm_rotation") /\ Has("fit") /\ ret.loc.fit = outcome

Downgraded ==
  \/ DOMAIN self # Fields
  \/ (ret.val # None /\ Len(ret.val[1]) > 2)

\* C7: when the fit does not converge pdm_rotation still returns the grid
\* argmin, with a non-finite uncertainty and a flag that the result was
\* downgraded.
C7_Downgrade ==
  (Called("pdm_rotation") /\ Has("fit") /\ ret.loc.fit # "converged") =>
    /\ ret.exc = "none"
    /\ ret.val # None
    /\ ret.val[1][1] = At(ret.args.period_grid, ret.loc.ind)
    /\ ~isfinite(ret.val[1][2])
    /\ Downgraded

\* C8: a trial period whose pooled-variance denominator is <= 0 leaves
\* the undefined marker (no number, 0 included) at its grid point; the
\* search does not stop there and Phi is evaluated at every grid point.
C8_DegenerateMarker ==
  (/\ Called("pdm_rotation")
   /\ PositiveGrid(ret.args.period_grid)
   /\ ret.args.pdm_nbins >= 2
   /\ AllFinite(self.flux[1])) =>
    /\ ret.exc \notin {"InvalidInput", "InvalidPeriod"}
    /\ ret.loc.calls = ret.args.period_grid
    /\ self.phis # None
    /\ Len(self.phis[1]) = Len(ret.args.period_grid)
    /\ \A k \in 1..Len(ret.args.period_grid) :
         Denominator(ret.args.pdm_nbins, ret.args.period_grid[k],
                     self.time[1], self.flux[1]) <= 0
           => /\ self.phis[1][k] = NaN
              /\ \A v \in TrialPeriods \cup FluxValues : ~Eq(self.phis[1][k], v)

\* a degenerate trial period followed by one that is not: both are
\* evaluated and stored
C8_Witness ==
  /\ Called("pdm_rotation")
  /\ Len(ret.args.period_grid) >= 2
  /\ PositiveGrid(ret.args.period_grid)
  /\ Denominator(ret.args.pdm_nbins, ret.args.period_grid[1],
                 self.time[1], self.flux[1]) <= 0
  /\ Denominator(ret.args.pdm_nbins, ret.args.period_grid[2],
                 self.time[1], self.flux[1]) > 0
  /\ ret.loc.calls = ret.args.period_grid
  /\ self.phis # None
  /\ Len(self.phis[1]) = Len(ret.args.period_grid)
  /\ self.phis[1][1] = NaN

ResultFields == {"freq", "power", "ls_period", "acf_x", "acf_y", "lags", "acf",
             "acf_period", "pdm_nbins", "period_grid", "phis", "pdm_period",
             "sigma", "mu", "a", "b", "period_err", "phase"}

\* C9: with a non-finite flux value every estimator reports an error
\* before it computes or stores anything, whatever its optional arguments.
C9_RejectsNonFinite ==
  (~AllFinite(self.flux[1]) /\ ~Called("__init__")) =>
    /\ ret.exc # "none"
    /\ ret.loc.calls = <<>>
    /\ \A f \in ResultFields : self[f] = None

\* C10: an empty grid, a period <= 0 in the grid or fewer than 2 bins
\* makes pdm_rotation fail with an error before Phi is evaluated at any
\* grid point.
C10_InvalidPdmInput ==
  (/\ Called("pdm_rotation")
   /\ \/ ret.args.period_grid = <<>>
      \/ ~PositiveGrid(ret.args.period_grid)
      \/ ret.args.pdm_nbins < 2) =>
    /\ ret.exc \in {"InvalidInput", "InvalidPeriod", "ValueError"}
    /\ ret.loc.calls = <<>>

\* the positions of the occupied bins, in order
Kept(nj) == Mask([j \in 1..Len(nj) |-> j], [j \in 1..Len(nj) |-> nj[j] >= 1])

\* a binning without its empty bins
Delete(v, nj) == array([i \in 1..Len(Kept(nj)) |-> v[Kept(nj)[i]]])

\* C11: the pooled within-bin variance is
\* sum_j (n_j - 1) sj2_j / (sum_j n_j - M) with M the number of occupied
\* bins: it equals the value obtained after deleting the empty bins and
\* does not depend on the configured bin count.
C11_OccupiedBins ==
  (Called("phi") /\ ret.exc = "none") =>
    ret.loc.s2 = s2(Delete(ret.loc.Ns, ret.loc.Ns),
                    Delete(ret.loc.sj2s, ret.loc.Ns),
                    Len(Kept(ret.loc.Ns)))

C13_LightCurveImmutable ==
  [][/\ self'.time = self.time
     /\ self'.flux = self.flux
     /\ self'.flux_err = self.flux_err]_vars

\* all three estimators have run on the object, the last one failing
C13_Witness ==
  /\ self.freq # None /\ self.acf_x # None /\ self.period_grid # None
  /\ ret.exc # "none"
  /\ self.flux[1][1] # self.flux[1][Len(self.flux[1])]

\* the same call made on a newly constructed object with the same light
\* curve
OnFresh(r) ==
  CASE r.op = "ls_rotation" ->
         ls_rotation(RotationModel(self.time[1], self.flux[1],
                                   self.flux_err[1]), r.args, ls_oracle)
    [] r.op = "acf_rotation" ->
         acf_rotation(RotationModel(self.time[1], self.flux[1],
                                    self.flux_err[1]), r.args, acf_oracle)
    [] r.op = "pdm_rotation" ->
         pdm_rotation(RotationModel(self.time[1], self.flux[1],
                                    self.flux_err[1]), r.args, fit_oracle)

SameAsFresh(after, outcome, fresh) ==
  /\ outcome = fresh.ret
  /\ \A f \in ResultFields : fresh.self[f] # None => after[f] = fresh.self[f]

\* C14: whatever calls were made on the object before, a call returns
\* what the same call returns on a newly constructed object holding the
\* same light curve, and stores the same values in the fields it fills.
C14_Stateless ==
  [][\E fresh \in {OnFresh(ret')} : SameAsFresh(self', ret', fresh)]_vars

\* a successful call on an object that holds results of the other two
\* estimators and of an earlier, different call of the same estimator
C14_Witness ==
  /\ Called("acf_rotation") /\ ret.exc = "none"
  /\ self.ls_period # None /\ self.pdm_period # None
  /\ self.acf_period = ret.val

\* C15: when the periodogram has a strict local maximum, ls_rotation
\* returns 1/freq[i] for an index i that is a strict local maximum of
\* power, of maximal power among them; never the period of a boundary
\* sample or of a sample that only has the same power as the highest peak.
C15_PeriodOfAPeak ==
  (/\ Called("ls_rotation") /\ Has("peaks")
   /\ StrictMaxima(self.power[1]) # {}) =>
    \E i \in StrictMaxima(self.power[1]) :
      /\ \A j \in StrictMaxima(self.power[1]) :
           ~Lt(At(self.power[1], i), At(self.power[1], j))
      /\ ret.val = Some(RDiv(R(1), At(self.freq[1], i)))

\* C16: with input_freq and input_power and no input_ls_period, after the
\* call self.freq is input_freq, self.power is input_power and the
\* returned period comes from the supplied power; with input_ls_period,
\* that period is returned and stored as ls_period and no power is computed.
C16_SuppliedPeriodogram ==
  /\ (/\ Called("ls_rotation")
      /\ ret.args.input_freq # None /\ ret.args.input_power # None
      /\ ret.args.input_ls_period = None) =>
       /\ self.freq = ret.args.input_freq
       /\ self.power = ret.args.input_power
       /\ ret.loc.calls = <<>>
  /\ (Called("ls_rotation") /\ ret.args.input_ls_period # None) =>
       /\ ret.exc = "none"
       /\ ret.val = ret.args.input_ls_period
       /\ self.ls_period = ret.args.input_ls_period
       /\ ret.loc.calls = <<>>

====
